---- MODULE Spec2Model ----
(***************************************************************************)
(* Ruling extraction of abyssal-tome: scripts/process_new_format.py, with   *)
(* the scraper that writes its input and the debounce decorator of the     *)
(* application.                                                            *)
(*                                                                         *)
(* process_ruling_html walks the <strong> tags of one markup fragment,     *)
(* cuts the content that follows each of them, classifies the label text   *)
(* through TEXT_TO_RULING_TYPE and pairs question and answer content       *)
(* through the loop variable current_question_html_str.                    *)
(*                                                                         *)
(* Text is a sequence of tokens (one token is a word, a blank, a colon or  *)
(* a whole document reference); markup is a tree of nodes as BeautifulSoup *)
(* builds it.  A Python "str | None" is a sequence of length at most one:  *)
(* None is << >> and the string s is << s >>.                              *)
(*                                                                         *)
(* Four specifications: Spec is one call of process_ruling_html on one     *)
(* fragment; SpecSourceName is one call of extract_faq_source_name on a    *)
(* text of single characters, with FAQ_VERSION_PATTERN matched character   *)
(* by character; SpecBatch is process_html_faq_data on a dict of cards,    *)
(* hand-made or written by parse_faqs, with the calls of                   *)
(* process_ruling_html it makes, run again on the same input or on one of  *)
(* its cards; SpecDebounce is a function wrapped by debounce, called       *)
(* several times on the asyncio event loop.                                *)
(***************************************************************************)
EXTENDS Integers, Sequences, FiniteSets, TLC

VARIABLES
    source_card_code,           \* argument: the card the fragment belongs to
    ruling_soup,                \* argument: the parsed fragment (its root node)
    card_updated_at,            \* argument: "str | None"
    pc,                         \* position in process_ruling_html (in extract_faq_source_name under SpecSourceName)
    original_snippet_html,      \* line 206
    base_provenance,            \* line 209
    strong_tags,                \* line 220, as paths into ruling_soup
    tag_index,                  \* position of the for loop of line 239 (1-based)
    current_question_html_str,  \* line 204, "str | None"
    rulings_for_item,           \* line 203
    question_tag,               \* history: index of the tag whose content is the stored question
    emitted_by,                 \* history: per ruling, the tags that supplied question and answer
    pending_before,             \* history: per pass of the loop, the question stored when it began
    hash_seed,                  \* the interpreter: the order in which this process iterates a set of str
    source_text,                \* extract_faq_source_name: its argument text_content, as single characters
    source_name,                \* extract_faq_source_name: what it returned, "str | None"
    now,                        \* the interpreter: the clock, one tick for each reading
    run,                        \* the interpreter: the process, 1, 2 (the same input run again) or 3 (one card of the input run alone)
    raw_faq_json,               \* process_html_faq_data: its argument, the cards in the order of the dict
    batch_pc,                   \* position in process_html_faq_data
    html_content_map,           \* line 366
    card_index,                 \* position of the for loop of line 368 (1-based)
    li_index,                   \* position of the for loop of line 375 (1-based)
    all_rulings,                \* line 364
    calls,                      \* history: per call of process_ruling_html, the card and the list returned
    first_run,                  \* history: how run 1 ended
    loop_time,                  \* debounce: the clock of the asyncio event loop, in ticks
    tasks,                      \* debounce: the tasks line 26 of utils.py created, in the order of the calls
    debounced_task              \* debounce: the attribute debounced._task, 0 for None, else an index into tasks

vars == << source_card_code, ruling_soup, card_updated_at, pc,
           original_snippet_html, base_provenance, strong_tags, tag_index,
           current_question_html_str, rulings_for_item, question_tag, emitted_by,
           pending_before, hash_seed, source_text, source_name, now, run,
           raw_faq_json, batch_pc, html_content_map, card_index, li_index,
           all_rulings, calls, first_run, loop_time, tasks, debounced_task >>

\* The variables of debounce.
debounce_vars == << loop_time, tasks, debounced_task >>

\* The variables of process_html_faq_data and of the second run.
batch_vars == << run, raw_faq_json, batch_pc, html_content_map, card_index, li_index,
                all_rulings, calls, first_run >>

-----------------------------------------------------------------------------
(* Bounds *)

\* Most <strong> tags in one fragment.
MaxLabels == 3

-----------------------------------------------------------------------------
(* Python values *)

None == << >>
Some(v) == << v >>

\* bool(x) of a "str | None": None and "" are both falsy.
Truthy(opt) == opt # None /\ opt[1] # << >>

Range(seq) == { seq[k] : k \in 1..Len(seq) }

RECURSIVE Flatten(_)
Flatten(seqs) ==
    IF seqs = << >> THEN << >> ELSE Head(seqs) \o Flatten(Tail(seqs))

-----------------------------------------------------------------------------
(* Text: str.strip(), str.lower(), str.join *)

IsSpace(tok) == tok = " "

RECURSIVE LStrip(_)
LStrip(s) == IF s # << >> /\ IsSpace(Head(s)) THEN LStrip(Tail(s)) ELSE s

RECURSIVE RStrip(_)
RStrip(s) ==
    IF s # << >> /\ IsSpace(s[Len(s)]) THEN RStrip(SubSeq(s, 1, Len(s) - 1)) ELSE s

\* str.strip()
Strip(s) == RStrip(LStrip(s))

RECURSIVE LStripColon(_)
LStripColon(s) == IF s # << >> /\ Head(s) = ":" THEN LStripColon(Tail(s)) ELSE s

RECURSIVE RStripColon(_)
RStripColon(s) ==
    IF s # << >> /\ s[Len(s)] = ":"
    THEN RStripColon(SubSeq(s, 1, Len(s) - 1)) ELSE s

\* str.strip(":"): only the ASCII colon is in the strip set.
StripColon(s) == RStripColon(LStripColon(s))

\* str.lower() of one token.
LowerTok(tok) ==
    CASE tok = "Q" -> "q"
      [] tok = "A" -> "a"
      [] tok = "Errata" -> "errata"
      [] tok = "ERRATA" -> "errata"
      [] tok = "Addendum" -> "addendum"
      [] tok = "Clarification" -> "clarification"
      [] tok = "Note" -> "note"
      [] tok = "Follow-up Q" -> "follow-up q"
      [] tok = "Update" -> "update"
      [] tok = "\"As If\"" -> "\"as if\""
      [] tok = "Automatic Success/Failure" -> "automatic success/failure"
      [] tok = "Automatic Success/Failure &  Automatic Evasion" ->
             "automatic success/failure &  automatic evasion"
      [] tok = "Reminder" -> "reminder"
      [] OTHER -> tok

Lower(s) == [k \in 1..Len(s) |-> LowerTok(s[k])]

\* sep.join(parts)
RECURSIVE Join(_, _)
Join(parts, sep) ==
    IF parts = << >> THEN << >>
    ELSE IF Len(parts) = 1 THEN parts[1]
    ELSE parts[1] \o sep \o Join(Tail(parts), sep)

-----------------------------------------------------------------------------
(* Markup: the bs4 tree.  Every node is a record of the same shape:        *)
(*   tag  "#text" for a NavigableString, else the tag name                 *)
(*   s    the string of a "#text" node                                     *)
(*   href the href attribute of an <a> tag ("" when it has none)           *)
(*   kids the children of a tag                                            *)

Text(s) == [tag |-> "#text", s |-> s, href |-> "", kids |-> << >>]
Tag(name, href, kids) == [tag |-> name, s |-> << >>, href |-> href, kids |-> kids]
StrongTag(label) == Tag("strong", "", << Text(label) >>)
Anchor(href, s) == Tag("a", href, << Text(s) >>)

IsTag(node) == node.tag # "#text"

\* One token of serialised markup: a character of text ("c"), an opening
\* tag with its href ("open") or a closing tag ("close").
Chr(tok) == [k |-> "c", name |-> "", v |-> tok]
Open(node) == [k |-> "open", name |-> node.tag, v |-> node.href]
Close(node) == [k |-> "close", name |-> node.tag, v |-> ""]

\* str(node) / decode_contents(): the markup of a node, of its children.
RECURSIVE Markup(_)
MarkupOfAll(nodes) == Flatten([k \in 1..Len(nodes) |-> Markup(nodes[k])])
Markup(node) ==
    IF IsTag(node)
    THEN << Open(node) >> \o
         Flatten([k \in 1..Len(node.kids) |-> Markup(node.kids[k])]) \o
         << Close(node) >>
    ELSE [k \in 1..Len(node.s) |-> Chr(node.s[k])]

IsSpaceChr(t) == t.k = "c" /\ IsSpace(t.v)

RECURSIVE LStripMarkup(_)
LStripMarkup(m) ==
    IF m # << >> /\ IsSpaceChr(Head(m)) THEN LStripMarkup(Tail(m)) ELSE m

RECURSIVE RStripMarkup(_)
RStripMarkup(m) ==
    IF m # << >> /\ IsSpaceChr(m[Len(m)])
    THEN RStripMarkup(SubSeq(m, 1, Len(m) - 1)) ELSE m

\* "".join(parts).strip() of serialised markup
StripMarkup(m) == RStripMarkup(LStripMarkup(m))

\* Tag._all_strings: the strings below a node, in document order.
RECURSIVE AllStrings(_)
AllStringsOfAll(nodes) == Flatten([k \in 1..Len(nodes) |-> AllStrings(nodes[k])])
AllStrings(node) ==
    IF IsTag(node)
    THEN Flatten([k \in 1..Len(node.kids) |-> AllStrings(node.kids[k])])
    ELSE << node.s >>

NonEmpty(s) == s # << >>

\* GetTextStripped with a seeded fault: the strings are stripped but the empty
\* ones are joined like the others.
GetTextStripped_KeepEmpty(nodes, sep) ==
    Join([k \in 1..Len(AllStringsOfAll(nodes)) |-> Strip(AllStringsOfAll(nodes)[k])], sep)

\* get_text(separator=sep, strip=True): every string stripped, the empty
\* ones skipped, the rest joined by sep.
GetTextStripped(nodes, sep) ==
    Join(SelectSeq([k \in 1..Len(AllStringsOfAll(nodes)) |->
                        Strip(AllStringsOfAll(nodes)[k])], NonEmpty), sep)

\* find_all(name), recursive: the paths of the tags called name, in document
\* order.  A path is the sequence of child indexes from the root.
RECURSIVE FindAll(_, _, _)
FindAll(node, path, name) ==
    Flatten([k \in 1..Len(node.kids) |->
        (IF node.kids[k].tag = name THEN << Append(path, k) >> ELSE << >>) \o
        FindAll(node.kids[k], Append(path, k), name)])

RECURSIVE NodeAt(_, _)
NodeAt(node, path) ==
    IF path = << >> THEN node ELSE NodeAt(node.kids[Head(path)], Tail(path))

\* tag.parent
ParentOf(root, path) == NodeAt(root, SubSeq(path, 1, Len(path) - 1))

-----------------------------------------------------------------------------
(* constants.py: the two regular expressions *)

\* The text tokens that FAQ_VERSION_PATTERN matches as a whole, with the
\* three groups the match captures.
ReferenceGroups(tok) ==
    CASE tok = "FAQ, v.1.7, March 2020" -> << "FAQ", "1.7", "March 2020" >>
      [] tok = "Errata Sheet v1.0, June 2021" -> << "Errata Sheet", "1.0", "June 2021" >>
      [] OTHER -> << >>

IsReference(t) == t.k = "c" /\ ReferenceGroups(t.v) # << >>

\* FAQ_VERSION_PATTERN.search(markup): the groups of the first match, or None.
FAQ_VERSION_PATTERN_search(markup) ==
    IF SelectSeq(markup, IsReference) = << >> THEN None
    ELSE Some(ReferenceGroups(SelectSeq(markup, IsReference)[1].v))

\* The group CARD_LINK_PATTERN captures in an href: the five digits that
\* follow "/card/", with or without the host in front; "" when no match.
CardLinkGroup(href) ==
    CASE href = "/card/01001" -> "01001"
      [] href = "/card/01002" -> "01002"
      [] href = "/card/01003" -> "01003"
      [] href = "https://arkhamdb.com/card/01003" -> "01003"
      [] href = "/card/01001b" -> "01001"
      [] OTHER -> ""

\* CARD_LINK_PATTERN.findall(markup), as the set line 191 makes of it.
CARD_LINK_PATTERN_findall(markup) ==
    { CardLinkGroup(markup[k].v) :
        k \in { j \in 1..Len(markup) : markup[j].k = "open" } } \ { "" }

\* Every card code of the model, in the order sorted() gives strings.
CodesInOrder == << "01001", "01001b", "01002", "01003" >>

-----------------------------------------------------------------------------
(* constants.py, line 49: FAQ_VERSION_PATTERN on a text of single characters *)

\* A text is a sequence of strings of length one.  The pattern, compiled
\* with re.IGNORECASE:
\*   (FAQ|Official FAQ|Errata Sheet)[,\s]*v?\.?\s*(\d+\.\d+[\w\d.-]*)\s*,\s*([\w\s]+\s\d{4})

UpperCase == << "A", "B", "C", "D", "E", "F", "G", "H", "I", "J", "K", "L", "M", "N", "O", "P", "Q", "R", "S", "T", "U", "V", "W", "X", "Y", "Z" >>
LowerCase == << "a", "b", "c", "d", "e", "f", "g", "h", "i", "j", "k", "l", "m", "n", "o", "p", "q", "r", "s", "t", "u", "v", "w", "x", "y", "z" >>

\* \d
Digit == { "0", "1", "2", "3", "4", "5", "6", "7", "8", "9" }
\* \w
Word == Digit \cup Range(UpperCase) \cup Range(LowerCase) \cup { "_" }
\* \s
Whitespace == { " ", "\t", "\n" }
\* [,\s]
CommaOrWhitespace == { "," } \cup Whitespace
\* [\w\d.-]
VersionChar == Word \cup { ".", "-" }
\* [\w\s]
WordOrWhitespace == Word \cup Whitespace

\* re.IGNORECASE: letters are compared in lower case.
LowerChar(c) ==
    IF c \in Range(UpperCase)
    THEN LowerCase[CHOOSE k \in 1..Len(UpperCase) : UpperCase[k] = c]
    ELSE c

\* The literal word matches at position i.
MatchesLiteral(text, i, word) ==
    /\ i + Len(word) - 1 <= Len(text)
    /\ \A k \in 1..Len(word) : LowerChar(text[i + k - 1]) = LowerChar(word[k])

\* A greedy X*: the first position from i on whose character is not in the
\* class (Len(text) + 1 at the end of the text).
RECURSIVE RunEnd(_, _, _)
RunEnd(text, i, class) ==
    IF i <= Len(text) /\ text[i] \in class THEN RunEnd(text, i + 1, class) ELSE i

\* An optional character: X?
SkipOptional(text, i, chars) ==
    IF i <= Len(text) /\ LowerChar(text[i]) \in chars THEN i + 1 ELSE i

\* (FAQ|Official FAQ|Errata Sheet): the position after group 1, Len(text) + 2
\* when no alternative matches at i.
Group1End(text, i) ==
    IF MatchesLiteral(text, i, << "F", "A", "Q" >>) THEN i + 3
    ELSE IF MatchesLiteral(text, i, << "O", "f", "f", "i", "c", "i", "a", "l", " ", "F", "A", "Q" >>) THEN i + 12
    ELSE IF MatchesLiteral(text, i, << "E", "r", "r", "a", "t", "a", " ", "S", "h", "e", "e", "t" >>) THEN i + 12
    ELSE Len(text) + 2

\* [,\s]*v?\.?\s* from the end of group 1: where group 2 begins.
Group2Start(text, i) ==
    RunEnd(text,
           SkipOptional(text,
               SkipOptional(text, RunEnd(text, i, CommaOrWhitespace), { "v" }),
               { "." }),
           Whitespace)

\* (\d+\.\d+[\w\d.-]*) from i: the position after group 2, 0 without match.
Group2End(text, i) ==
    LET dot == RunEnd(text, i, Digit)
        digits == RunEnd(text, dot + 1, Digit)
    IN  IF dot > i /\ dot <= Len(text) /\ text[dot] = "." /\ digits > dot + 1
        THEN RunEnd(text, digits, VersionChar)
        ELSE 0

\* \s*,\s* from i: where group 3 begins, 0 without match.
Group3Start(text, i) ==
    LET comma == RunEnd(text, i, Whitespace)
    IN  IF comma <= Len(text) /\ text[comma] = ","
        THEN RunEnd(text, comma + 1, Whitespace)
        ELSE 0

\* ([\w\s]+\s\d{4}) from i: the greedy [\w\s]+ runs as far as it can and gives
\* back until a white space and four digits follow it.  The positions of
\* that white space; the match takes the last of them.
YearSpaces(text, i) ==
    { e \in (i + 1)..(RunEnd(text, i, WordOrWhitespace) - 5) :
        /\ text[e] \in Whitespace
        /\ \A k \in 1..4 : text[e + k] \in Digit }

Max(S) == CHOOSE x \in S : \A y \in S : y <= x
Min(S) == CHOOSE x \in S : \A y \in S : x <= y

\* The three groups of the match that begins at i, << >> without match.
MatchAt(text, i) ==
    LET g1 == Group1End(text, i)
        s2 == Group2Start(text, g1)
        g2 == Group2End(text, s2)
        s3 == IF g2 = 0 THEN 0 ELSE Group3Start(text, g2)
    IN  IF g1 > Len(text) + 1 \/ g2 = 0 \/ s3 = 0 \/ YearSpaces(text, s3) = { }
        THEN << >>
        ELSE << SubSeq(text, i, g1 - 1), SubSeq(text, s2, g2 - 1),
                SubSeq(text, s3, Max(YearSpaces(text, s3)) + 4) >>

\* FAQ_VERSION_PATTERN.search(text): the groups of the leftmost match, or None.
FAQ_VERSION_PATTERN_search_text(text) ==
    LET starts == { i \in 1..Len(text) : MatchAt(text, i) # << >> }
    IN  IF starts = { } THEN None ELSE Some(MatchAt(text, Min(starts)))

\* extract_faq_source_name, lines 183-187, on a text of single characters.
extract_faq_source_name_text(text) ==
    LET match == FAQ_VERSION_PATTERN_search_text(text)
    IN  IF match # None
        THEN Some(match[1][1] \o << " ", "v", "." >> \o match[1][2] \o << ",", " " >>
                  \o match[1][3])
        ELSE None

-----------------------------------------------------------------------------
(* process_new_format.py *)

\* RulingType, lines 52-62
RulingType == { "ERRATA", "ADDENDUM", "QUESTION_ANSWER", "CLARIFICATION", "NOTE",
                "UPDATE", "AS_IF", "AUTOMATIC_SUCCESS_FAILURE",
                "AUTOMATIC_SUCCESS_FAILURE_AUTOMATIC_EVASION" }

\* TEXT_TO_RULING_TYPE, lines 92-104: "a" has no entry.
TEXT_TO_RULING_TYPE ==
    ( << "errata" >> :> "ERRATA" ) @@
    ( << "addendum" >> :> "ADDENDUM" ) @@
    ( << "q" >> :> "QUESTION_ANSWER" ) @@
    ( << "clarification" >> :> "CLARIFICATION" ) @@
    ( << "note" >> :> "NOTE" ) @@
    ( << "follow-up q" >> :> "QUESTION_ANSWER" ) @@
    ( << "update" >> :> "UPDATE" ) @@
    ( << "\"as if\"" >> :> "AS_IF" ) @@
    ( << "automatic success/failure" >> :> "AUTOMATIC_SUCCESS_FAILURE" ) @@
    ( << "automatic success/failure &  automatic evasion" >> :>
          "AUTOMATIC_SUCCESS_FAILURE_AUTOMATIC_EVASION" )

\* extract_faq_source_name, lines 183-187: f"{g1} v.{g2}, {g3}"
extract_faq_source_name(text_content) ==
    IF FAQ_VERSION_PATTERN_search(text_content) # None
    THEN Some(<< FAQ_VERSION_PATTERN_search(text_content)[1][1], " v.",
                 FAQ_VERSION_PATTERN_search(text_content)[1][2], ", ",
                 FAQ_VERSION_PATTERN_search(text_content)[1][3] >>)
    ELSE None

\* The place of a code in the order of str: sorted() compares code points.
CodeRank(code) == CHOOSE k \in 1..Len(CodesInOrder) : CodesInOrder[k] = code

\* sorted(...) of line 193, as an insertion sort: the element goes before the
\* first one that is greater.
RECURSIVE Insert(_, _)
Insert(code, sorted_codes) ==
    IF sorted_codes = << >> THEN << code >>
    ELSE IF CodeRank(code) < CodeRank(Head(sorted_codes))
         THEN << code >> \o sorted_codes
         ELSE << Head(sorted_codes) >> \o Insert(code, Tail(sorted_codes))

\* sorted(...) with a seeded fault: the codes stay in the order given.
Sorted_AsGiven(codes) == codes

RECURSIVE Sorted(_)
Sorted(codes) ==
    IF codes = << >> THEN << >> ELSE Insert(Head(codes), Sorted(Tail(codes)))

\* Iterating a Python set of str gives its elements once each, in an order
\* that the hash seed of the process fixes.
SetIteration(codes) ==
    LET InSet(code) == code \in codes IN SelectSeq(hash_seed, InSet)

\* extract_related_card_codes with a seeded fault: the card's own code stays.
extract_related_card_codes_Unfiltered(html_content, current_card_code) ==
    LET found_codes == CARD_LINK_PATTERN_findall(html_content)
    IN  Sorted(SetIteration(found_codes))

\* extract_related_card_codes with a seeded fault: sorted() is left out, the
\* codes come as the set gives them.
extract_related_card_codes_Unsorted(html_content, current_card_code) ==
    LET found_codes == CARD_LINK_PATTERN_findall(html_content)
        Kept(code) == code # current_card_code
    IN  SelectSeq(SetIteration(found_codes), Kept)

\* extract_related_card_codes, lines 190-193
extract_related_card_codes(html_content, current_card_code) ==
    LET found_codes == CARD_LINK_PATTERN_findall(html_content)
        Kept(code) == code # current_card_code
    IN  Sorted(SelectSeq(SetIteration(found_codes), Kept))

\* Provenance(...), lines 65-70; retrieval_date is the clock as the object is
\* made (line 69).  object is the identity of the Python object: the clock
\* of the call that made it and 0, the copies of it numbered from 1.
Provenance(type, url, date, name) ==
    [source_type |-> type, source_name |-> name, source_date |-> date,
     retrieval_date |-> now, source_url |-> url, object |-> << now, 0 >>]

\* model_copy with a seeded fault: no copy, the object itself.
model_copy_SameObject(provenance, n) == provenance

\* provenance.model_copy(deep=True), lines 232, 288 and 343: a new object
\* with the fields of the old one; n numbers the copies of one call.
model_copy(provenance, n) ==
    [provenance EXCEPT !.object = << provenance.object[1], n >>]

\* uuid.uuid4(), line 74: a value that no other call gives, in this process
\* or another; here the process and the number of the call in it.
Uuid4 == << run, Len(all_rulings) + Len(rulings_for_item) + 1 >>

\* Ruling(...), lines 73-85 (tags stay empty)
Ruling(code, type, question, answer, text, provenance, snippet, related) ==
    [id |-> Uuid4, source_card_code |-> code, related_card_codes |-> related,
     ruling_type |-> type, question |-> question, answer |-> answer,
     text |-> text, provenance |-> provenance,
     original_html_snippet |-> snippet]

-----------------------------------------------------------------------------
(* process_ruling_html, lines 239-284: the content of one <strong> tag *)

\* Lines 246-248 and 272-274: a Tag named "strong" that is in strong_tags
\* (list membership compares tags by value).
IsStrongTag(node, all_strong) ==
    IsTag(node) /\ node.tag = "strong" /\ node \in all_strong

\* Lines 243-252: the siblings after the tag, up to the next <strong> sibling.
RECURSIVE SiblingsAfter(_, _, _)
SiblingsAfter(siblings, k, all_strong) ==
    IF k > Len(siblings) THEN << >>
    ELSE IF IsStrongTag(siblings[k], all_strong) THEN << >>
    ELSE << siblings[k] >> \o SiblingsAfter(siblings, k + 1, all_strong)

\* Lines 264-277: the children of the parent, collected from the first child
\* that equals the tag (Tag.__eq__ compares name, attributes and contents), with
\* every child equal to the tag skipped, up to another <strong> tag.
RECURSIVE ParentChildrenAfter(_, _, _, _, _)
ParentChildrenAfter(children, k, strong_tag, start_collecting, all_strong) ==
    IF k > Len(children) THEN << >>
    ELSE IF children[k] = strong_tag
         THEN ParentChildrenAfter(children, k + 1, strong_tag, TRUE, all_strong)
    ELSE IF ~start_collecting
         THEN ParentChildrenAfter(children, k + 1, strong_tag, FALSE, all_strong)
    ELSE IF IsStrongTag(children[k], all_strong) THEN << >>
    ELSE << children[k] >> \o
         ParentChildrenAfter(children, k + 1, strong_tag, TRUE, all_strong)

\* Lines 242-280: the nodes that make the content of the tag at path.  The
\* markup of the nodes is re-parsed for its text (lines 257, 279); the parser
\* gives back the nodes it was serialised from.
ContentNodes(root, path, tags) ==
    LET all_strong == { NodeAt(root, tags[k]) : k \in 1..Len(tags) }
        parent == ParentOf(root, path)
        after == SiblingsAfter(parent.kids, path[Len(path)] + 1, all_strong)
    IN  IF StripMarkup(MarkupOfAll(after)) = << >> /\ parent.tag # "body"
        THEN ParentChildrenAfter(parent.kids, 1, NodeAt(root, path), FALSE, all_strong)
        ELSE after

\* full_content_html_str, lines 255 and 278
FullContentHtmlStr(root, path, tags) ==
    StripMarkup(MarkupOfAll(ContentNodes(root, path, tags)))

\* full_content_plain_text, lines 258 and 280
FullContentPlainText(root, path, tags) ==
    GetTextStripped(ContentNodes(root, path, tags), << " " >>)

\* tag_text, line 240: get_text(strip=True).strip(":").lower()
TagText(strong_tag) ==
    Lower(StripColon(GetTextStripped(<< strong_tag >>, << >>)))

\* ruling_type_key with a seeded fault: the label text is the key as it is.
RulingTypeKey_WholeText(tag_text) == tag_text

\* ruling_type_key, lines 282-284
RulingTypeKey(tag_text) ==
    IF tag_text # << >> /\ Head(tag_text) = "follow-up q"
    THEN << "follow-up q" >> ELSE tag_text

-----------------------------------------------------------------------------
(* Inputs *)

lblQ == << "Q", ":" >>
lblA == << "A", ":" >>
lblErrata == << "Errata", ":" >>
lblFollowUp == << "Follow-up Q", " ", "2", ":" >>
lblUnknown == << "Reminder", ":" >>
\* A label of the table in upper case, and one that ends with the full-width
\* colon (the character U+FF1A, written "U+FF1A" as a token).
lblUpperCase == << "ERRATA", ":" >>
lblFullWidth == << "Errata", "U+FF1A" >>

\* Labels of the other kinds of the table.
OtherLabels ==
    { << "Addendum", ":" >>, << "Clarification", ":" >>, << "Note", ":" >>,
      << "Update", ":" >>, << "\"As If\"", ":" >>,
      << "Automatic Success/Failure", ":" >>,
      << "Automatic Success/Failure &  Automatic Evasion", ":" >> }

txtX == << Text(<< " ", "x", " " >>) >>
txtOther ==
    << Text(<< " ", "z", " " >>), Anchor("/card/01002", << "n" >>), Text(<< "." >>) >>
txtLinked ==
    << Anchor("/card/01001", << "m" >>),
       Text(<< " ", "y", " ", "FAQ, v.1.7, March 2020", " " >>),
       Anchor("https://arkhamdb.com/card/01003", << "k" >>) >>

\* Links out of order and repeated: 01001, 01003, 01002, 01001, 01003.
txtRelinked == txtLinked \o txtOther \o txtLinked

\* A document reference other than the one of txtLinked.
txtErrataSheet == << Text(<< " ", "w", " ", "Errata Sheet v1.0, June 2021", "." >>) >>

\* What may follow a label, up to the next one.
Contents == { << >>, txtX, txtLinked }

\* One label with what follows it: the segments that may stand anywhere in a
\* fragment.
Segments ==
    { << StrongTag(l) >> \o c : l \in { lblQ, lblA }, c \in Contents }
    \cup { << StrongTag(lblErrata) >>, << StrongTag(lblErrata) >> \o txtX,
           << StrongTag(lblUnknown) >> \o txtX, << StrongTag(lblFollowUp) >> \o txtX }

\* The segments that stand last only: what follows them does not depend on
\* them (they leave no question stored).
OtherSegments ==
    { << StrongTag(l) >> \o txtX : l \in OtherLabels }
    \cup { << StrongTag(lblErrata) >> \o txtLinked,
           << StrongTag(lblUnknown) >> \o txtLinked, << StrongTag(lblUnknown) >>,
           << StrongTag(lblA) >> \o txtErrataSheet,
           << StrongTag(lblErrata) >> \o txtErrataSheet,
           << StrongTag(lblUpperCase) >> \o txtX,
           << StrongTag(lblFullWidth) >> \o txtX }

\* The lists of n segments.
SegmentLists(n) ==
    [1..n -> Segments]
    \cup { Append(f, o) : f \in [1..(n - 1) -> Segments], o \in OtherSegments }

\* Fragments without any <strong> tag.
PlainFragments ==
    { << >>, << Text(<< " " >>) >>, txtX, txtOther, txtLinked, txtRelinked,
      << Tag("p", "", txtX), Text(<< " " >>), Tag("p", "", txtOther) >> }

\* Fragments of n labels, each directly under the root.
FlatFragments(n) == { Flatten(f) : f \in SegmentLists(n) }

\* Fragments of n labels, each with its content in a <p> of its own.
ParagraphFragments(n) ==
    { [k \in 1..n |-> Tag("p", "", f[k])] : f \in SegmentLists(n) }

\* Fragments of n labels: the first directly under the root, the others in a
\* <p> of their own after it.
MixedFragments(n) ==
    { f[1] \o [k \in 1..(n - 1) |-> Tag("p", "", f[k + 1])] : f \in SegmentLists(n) }

Fragments ==
    PlainFragments
    \cup UNION { FlatFragments(n) : n \in 1..MaxLabels }
    \cup UNION { ParagraphFragments(n) \cup MixedFragments(n) : n \in 1..(MaxLabels - 1) }

\* Most pieces of text before the reference, and after it.
MaxPieces == 2

\* The reference of the example.
txtReference == << "F", "A", "Q", ",", " ", "v", ".", "1", ".", "7", ",", " ", "M", "a", "r", "c", "h", " ", "2", "0", "2", "0" >>

\* Pieces of text that may stand before the reference.
PiecesBefore ==
    { << "S", "e", "e", " " >>,
      << "x" >>,
      << "O", "f", "f", "i", "c", "i", "a", "l", " " >>,
      << "(" >>,
      << "E", "r", "r", "a", "t", "a", " ", "S", "h", "e", "e", "t", " ", "v", "1", ".", "0", ",", " ", "J", "u", "n", "e", " ", "2", "0", "2", "1", ";", " " >> }

\* Pieces of text that may stand after the reference.
PiecesAfter ==
    { << "." >>,
      << " " >>,
      << "1" >>,
      << " ", "a", "n", "d" >>,
      << " ", "2", "0", "2", "1" >>,
      << ")" >> }

\* The texts made of at most n of the pieces.
RECURSIVE Affixes(_, _)
Affixes(pieces, n) ==
    IF n = 0 THEN { << >> }
    ELSE Affixes(pieces, n - 1)
         \cup { p \o a : p \in pieces, a \in Affixes(pieces, n - 1) }

\* Texts that contain the reference.
TextsWithReference ==
    { before \o txtReference \o after :
        before \in Affixes(PiecesBefore, MaxPieces),
        after \in Affixes(PiecesAfter, MaxPieces) }

CardCodes == { "01001" }
UpdatedAt == { None, Some("2023-04-01") }

\* The hash seeds of the model: one that iterates the codes in ascending
\* order, one in descending order.
HashSeeds == { << "01001", "01002", "01003" >>, << "01003", "01002", "01001" >> }

-----------------------------------------------------------------------------
(* process_ruling_html, lines 196-356 *)

Init ==
    /\ source_card_code \in CardCodes
    /\ ruling_soup \in { Tag("[document]", "", f) : f \in Fragments }
    /\ card_updated_at \in UpdatedAt
    /\ pc = "start"
    /\ original_snippet_html = None
    /\ base_provenance = None
    /\ strong_tags = << >>
    /\ tag_index = 0
    /\ current_question_html_str = None
    /\ rulings_for_item = << >>
    /\ question_tag = 0
    /\ emitted_by = << >>
    /\ pending_before = << >>
    /\ hash_seed \in HashSeeds
    /\ source_text = << >>
    /\ source_name = None
    /\ now = 1
    /\ run = 1
    /\ raw_faq_json = << >>
    /\ batch_pc = "not_called"
    /\ html_content_map = << >>
    /\ card_index = 0
    /\ li_index = 0
    /\ all_rulings = << >>
    /\ calls = << >>
    /\ first_run = None
    /\ loop_time = 0
    /\ tasks = << >>
    /\ debounced_task = 0

\* Lines 203-220: the snippet, the base provenance, the <strong> tags.
Begin ==
    /\ pc = "start"
    /\ original_snippet_html' = StripMarkup(MarkupOfAll(ruling_soup.kids))
    /\ base_provenance' =
           Provenance("arkhamdb_faq", << "https://arkhamdb.com/card/", source_card_code, "#faq" >>,
                      card_updated_at,
                      extract_faq_source_name(StripMarkup(MarkupOfAll(ruling_soup.kids))))
    /\ strong_tags' = FindAll(ruling_soup, << >>, "strong")
    /\ now' = now + 1
    /\ tag_index' = 1
    /\ pc' = IF FindAll(ruling_soup, << >>, "strong") = << >> THEN "no_tags" ELSE "loop"
    /\ UNCHANGED << debounce_vars, batch_vars, hash_seed, source_text, source_name, source_card_code, ruling_soup, card_updated_at,
                    current_question_html_str, rulings_for_item, question_tag,
                    emitted_by, pending_before >>

\* Lines 222-237: no <strong> tag, the fragment is one clarification.
NoStrongTags ==
    /\ pc = "no_tags"
    /\ LET plain_text_content == GetTextStripped(ruling_soup.kids, << " " >>)
       IN  IF plain_text_content # << >>
           THEN /\ rulings_for_item' = Append(rulings_for_item,
                       Ruling(source_card_code, "CLARIFICATION", None, None,
                              Some(plain_text_content),
                              model_copy(base_provenance, 1),
                              original_snippet_html,
                              extract_related_card_codes(original_snippet_html,
                                                         source_card_code)))
                /\ emitted_by' = Append(emitted_by, [question |-> 0, answer |-> 0])
           ELSE UNCHANGED << rulings_for_item, emitted_by >>
    /\ pc' = "done"
    /\ UNCHANGED << debounce_vars, batch_vars, now, hash_seed, source_text, source_name, source_card_code, ruling_soup, card_updated_at,
                    original_snippet_html, base_provenance, strong_tags, tag_index,
                    current_question_html_str, question_tag, pending_before >>

\* Lines 288-292: a copy of the base provenance, its source_name replaced when
\* the content of the tag holds a document reference of its own.
CurrentProvenance(base, full_content_html_str) ==
    IF extract_faq_source_name(full_content_html_str) # None
    THEN [model_copy(base, tag_index)
              EXCEPT !.source_name = extract_faq_source_name(full_content_html_str)]
    ELSE model_copy(base, tag_index)

\* Line 292 assigns to a field of the object current_provenance: whoever
\* holds that object reads the new source_name from then on.  The pass on
\* tag_index assigns when the label has an entry (line 286) and its content a
\* reference (line 291).
AssignsSourceName ==
    /\ RulingTypeKey(TagText(NodeAt(ruling_soup, strong_tags[tag_index])))
           \in DOMAIN TEXT_TO_RULING_TYPE
    /\ extract_faq_source_name(
           FullContentHtmlStr(ruling_soup, strong_tags[tag_index], strong_tags)) # None

AfterAssignment(provenance) ==
    IF AssignsSourceName
       /\ provenance.object = model_copy(base_provenance, tag_index).object
    THEN [provenance EXCEPT !.source_name = extract_faq_source_name(
              FullContentHtmlStr(ruling_soup, strong_tags[tag_index], strong_tags))]
    ELSE provenance

\* The rulings appended so far, as they read after line 292.
EarlierRulings ==
    [r \in 1..Len(rulings_for_item) |->
        [rulings_for_item[r] EXCEPT !.provenance = AfterAssignment(@)]]

\* Lines 300-308, 314-322 and 338-348: a QUESTION_ANSWER ruling.
QuestionAnswerRuling(question, answer, provenance) ==
    Ruling(source_card_code, "QUESTION_ANSWER", question, Some(answer), None,
           provenance, original_snippet_html,
           extract_related_card_codes(original_snippet_html, source_card_code))

\* TextRuling with a seeded fault: the text is put in question as well.
TextRuling_WithQuestion(ruling_type_enum, text, provenance) ==
    Ruling(source_card_code, ruling_type_enum, Some(text), None, Some(text),
           provenance, original_snippet_html,
           extract_related_card_codes(original_snippet_html, source_card_code))

\* TextRuling with a seeded fault: the kind of the label is lost.
TextRuling_AsClarification(ruling_type_enum, text, provenance) ==
    Ruling(source_card_code, "CLARIFICATION", None, None, Some(text),
           provenance, original_snippet_html,
           extract_related_card_codes(original_snippet_html, source_card_code))

\* Lines 327-334: a ruling of the kind of its own label.
TextRuling(ruling_type_enum, text, provenance) ==
    Ruling(source_card_code, ruling_type_enum, None, None, Some(text),
           provenance, original_snippet_html,
           extract_related_card_codes(original_snippet_html, source_card_code))

\* Lines 296-297: the content of a question label is stored, nothing is emitted.
StoreQuestion(full_content_plain_text) ==
    /\ current_question_html_str' = Some(full_content_plain_text)
    /\ question_tag' = tag_index
    /\ rulings_for_item' = EarlierRulings
    /\ UNCHANGED emitted_by

\* EmitAnswer with a seeded fault: the question stays stored after it has
\* been answered.
EmitAnswer_KeepQuestion(answer, provenance) ==
    /\ rulings_for_item' = Append(EarlierRulings,
           QuestionAnswerRuling(current_question_html_str, answer, provenance))
    /\ emitted_by' = Append(emitted_by, [question |-> question_tag, answer |-> tag_index])
    /\ UNCHANGED << current_question_html_str, question_tag >>

\* Lines 299-310, 313-324 and 337-350: the stored question leaves with this
\* content as its answer.
EmitAnswer(answer, provenance) ==
    /\ rulings_for_item' = Append(EarlierRulings,
           QuestionAnswerRuling(current_question_html_str, answer, provenance))
    /\ emitted_by' = Append(emitted_by, [question |-> question_tag, answer |-> tag_index])
    /\ current_question_html_str' = None
    /\ question_tag' = 0

\* Lines 326-335: the content leaves as a ruling of its own kind.
EmitText(ruling_type_enum, text, provenance) ==
    /\ rulings_for_item' = Append(EarlierRulings,
           TextRuling(ruling_type_enum, text, provenance))
    /\ emitted_by' = Append(emitted_by, [question |-> 0, answer |-> tag_index])
    /\ UNCHANGED << current_question_html_str, question_tag >>

\* Lines 287-335: the label has an entry in TEXT_TO_RULING_TYPE.
ClassifiedTag(ruling_type_enum, tag_text, full_content_html_str, full_content_plain_text) ==
    LET current_provenance == CurrentProvenance(base_provenance, full_content_html_str)
    IN  IF ruling_type_enum = "QUESTION_ANSWER"
        THEN StoreQuestion(full_content_plain_text)
        ELSE IF tag_text = << "a" >> /\ current_question_html_str # None
        THEN EmitAnswer(full_content_plain_text, current_provenance)
        ELSE IF Truthy(current_question_html_str)
        THEN EmitAnswer(full_content_plain_text, current_provenance)
        ELSE EmitText(ruling_type_enum, full_content_plain_text, current_provenance)

\* UnclassifiedTag with a seeded fault: without a stored question the content
\* leaves as a clarification, as on the path without labels.
UnclassifiedTag_AsClarification(full_content_plain_text) ==
    IF Truthy(current_question_html_str)
    THEN EmitAnswer(full_content_plain_text, model_copy(base_provenance, tag_index))
    ELSE EmitText("CLARIFICATION", full_content_plain_text,
                  model_copy(base_provenance, tag_index))

\* Lines 336-350: the label has no entry.
UnclassifiedTag(full_content_plain_text) ==
    IF Truthy(current_question_html_str)
    THEN EmitAnswer(full_content_plain_text, model_copy(base_provenance, tag_index))
    ELSE UNCHANGED << rulings_for_item, emitted_by, current_question_html_str,
                      question_tag >>

\* Lines 239-350: one pass of the loop over strong_tags.
ProcessStrongTag ==
    /\ pc = "loop"
    /\ tag_index <= Len(strong_tags)
    /\ LET strong_tag == NodeAt(ruling_soup, strong_tags[tag_index])
           tag_text == TagText(strong_tag)
           full_content_html_str ==
               FullContentHtmlStr(ruling_soup, strong_tags[tag_index], strong_tags)
           full_content_plain_text ==
               FullContentPlainText(ruling_soup, strong_tags[tag_index], strong_tags)
           ruling_type_key == RulingTypeKey(tag_text)
       IN  IF ruling_type_key \in DOMAIN TEXT_TO_RULING_TYPE
           THEN ClassifiedTag(TEXT_TO_RULING_TYPE[ruling_type_key], tag_text,
                              full_content_html_str, full_content_plain_text)
           ELSE UnclassifiedTag(full_content_plain_text)
    /\ base_provenance' = AfterAssignment(base_provenance)
    /\ pending_before' = Append(pending_before, current_question_html_str)
    /\ tag_index' = tag_index + 1
    /\ UNCHANGED << debounce_vars, batch_vars, now, hash_seed, source_text, source_name, source_card_code, ruling_soup, card_updated_at, pc,
                    original_snippet_html, strong_tags >>

\* Return with a seeded fault: a question still stored leaves with an empty
\* answer.
Return_EmitPending ==
    /\ pc = "loop"
    /\ tag_index > Len(strong_tags)
    /\ pc' = "done"
    /\ IF current_question_html_str # None
       THEN /\ rulings_for_item' = Append(rulings_for_item,
                   QuestionAnswerRuling(current_question_html_str, << >>,
                                        model_copy(base_provenance, tag_index)))
            /\ emitted_by' = Append(emitted_by,
                   [question |-> question_tag, answer |-> question_tag])
       ELSE UNCHANGED << rulings_for_item, emitted_by >>
    /\ UNCHANGED << debounce_vars, batch_vars, now, hash_seed, source_text, source_name, source_card_code, ruling_soup, card_updated_at,
                    original_snippet_html, base_provenance, strong_tags, tag_index,
                    current_question_html_str, question_tag, pending_before >>

\* Line 356: the loop is over, the list is returned.
Return ==
    /\ pc = "loop"
    /\ tag_index > Len(strong_tags)
    /\ pc' = "done"
    /\ UNCHANGED << debounce_vars, batch_vars, now, hash_seed, source_text, source_name, source_card_code, ruling_soup, card_updated_at,
                    original_snippet_html, base_provenance, strong_tags, tag_index,
                    current_question_html_str, rulings_for_item, question_tag,
                    emitted_by, pending_before >>

Next == Begin \/ NoStrongTags \/ ProcessStrongTag \/ Return

Spec == Init /\ [][Next]_vars

-----------------------------------------------------------------------------
(* extract_faq_source_name, lines 183-187, called on a text *)

InitSourceName ==
    /\ source_card_code \in CardCodes
    /\ ruling_soup = Tag("[document]", "", << >>)
    /\ card_updated_at = None
    /\ pc = "extract_faq_source_name"
    /\ original_snippet_html = None
    /\ base_provenance = None
    /\ strong_tags = << >>
    /\ tag_index = 0
    /\ current_question_html_str = None
    /\ rulings_for_item = << >>
    /\ question_tag = 0
    /\ emitted_by = << >>
    /\ pending_before = << >>
    /\ hash_seed \in HashSeeds
    /\ source_text \in TextsWithReference
    /\ source_name = None
    /\ now = 1
    /\ run = 1
    /\ raw_faq_json = << >>
    /\ batch_pc = "not_called"
    /\ html_content_map = << >>
    /\ card_index = 0
    /\ li_index = 0
    /\ all_rulings = << >>
    /\ calls = << >>
    /\ first_run = None
    /\ loop_time = 0
    /\ tasks = << >>
    /\ debounced_task = 0

\* Lines 184-187
ExtractFaqSourceName ==
    /\ pc = "extract_faq_source_name"
    /\ source_name' = extract_faq_source_name_text(source_text)
    /\ pc' = "returned"
    /\ UNCHANGED << debounce_vars, batch_vars, now, hash_seed, source_text, source_card_code, ruling_soup,
                    card_updated_at, original_snippet_html, base_provenance,
                    strong_tags, tag_index, current_question_html_str,
                    rulings_for_item, question_tag, emitted_by, pending_before >>

NextSourceName == ExtractFaqSourceName

SpecSourceName == InitSourceName /\ [][NextSourceName]_vars

-----------------------------------------------------------------------------
(* process_html_faq_data, lines 359-384, and convert_json_to_html, 131-135 *)

\* Most cards in one batch.
MaxCards == 2

\* A list item with a question and its answer.
liQuestionAnswer ==
    << StrongTag(lblQ) >> \o txtX \o << StrongTag(lblA) >> \o txtLinked

\* A question in one list item, its answer in the next.
liQuestion == << StrongTag(lblQ) >> \o txtX
liAnswer == << StrongTag(lblA) >> \o txtOther

\* A list item that holds a list of its own.
liWithNestedList ==
    << StrongTag(lblErrata) >> \o txtX
    \o << Tag("ul", "", << Tag("li", "", << StrongTag(<< "Note", ":" >>) >> \o txtX) >>) >>

\* The entries of the batch, each the card code and the JSON object of the
\* card: a list of two items; labels without a list, under the keys the
\* scraper writes; an entry without "text"; an empty text; a question and
\* its answer in two list items; a list item inside a list item.
CardEntries ==
    { << "01001",
         [text |-> << Tag("ul", "", << Tag("li", "", liQuestionAnswer),
                                       Tag("li", "", txtRelinked) >>) >>,
          updated_at |-> "2023-04-01"] >>,
      << "01002",
         [text |-> << StrongTag(lblErrata) >> \o txtRelinked,
          updated |-> "2023-04-01"] >>,
      << "01003", [updated_at |-> "2023-04-01"] >>,
      << "01004", [text |-> << >>, updated_at |-> "2023-04-01"] >>,
      << "01005",
         [text |-> << Tag("ul", "", << Tag("li", "", liQuestion),
                                       Tag("li", "", liAnswer) >>) >>,
          updated_at |-> "2023-04-01"] >>,
      << "01006",
         [text |-> << Tag("ul", "", << Tag("li", "", liWithNestedList) >>) >>,
          updated_at |-> "2023-04-01"] >> }

\* The dicts of at most n cards: each card once, in any order.
Batches(n) ==
    UNION { { b \in [1..m -> CardEntries] :
                \A i, j \in 1..m : i # j => b[i] # b[j] } : m \in 1..n }

-----------------------------------------------------------------------------
(* scripts/scrape_arkhamdb_faq.py, parse_faqs, lines 53-102: the file that  *)
(* process_new_format.py loads (constants.FAQS_FILE_PATH in both mains)     *)

\* re.sub of CARD_LINK_RULE_PATTERN and RULES_LINK_RULE_PATTERN, lines 90-91,
\* in an href: the scheme and the host are cut off.
RelativeHref(href) ==
    CASE href = "https://arkhamdb.com/card/01003" -> "/card/01003"
      [] href = "http://arkhamdb.com/card/01002" -> "/card/01002"
      [] href = "https://arkhamdb.com/rules#Errata" -> "/rules#Errata"
      [] OTHER -> href

\* Lines 87-93 on the markup of a response: "<p>" and "</p>" are deleted, so
\* what a paragraph holds stands in its place; the links are made relative.
\* (The responses hold no icon span and no "\r\n", lines 88-89.)
RECURSIVE CleanedText(_)
CleanedText(nodes) ==
    IF nodes = << >> THEN << >>
    ELSE LET node == Head(nodes)
         IN  ( IF ~IsTag(node) THEN << node >>
               ELSE IF node.tag = "p" THEN CleanedText(node.kids)
               ELSE << [node EXCEPT !.href = RelativeHref(node.href),
                                    !.kids = CleanedText(node.kids)] >> )
             \o CleanedText(Tail(nodes))

\* rulings[code] = entry, line 101: a dict keeps the place of a key it has.
DictSet(dict, key, value) ==
    IF \E k \in 1..Len(dict) : dict[k][1] = key
    THEN [k \in 1..Len(dict) |->
              IF dict[k][1] = key THEN << key, value >> ELSE dict[k]]
    ELSE Append(dict, << key, value >>)

\* Lines 66-102.  An item is None or the list the API answered with (here
\* empty or of one object); items without "html", "code" or "updated", or
\* without a date in "updated", are skipped.
RECURSIVE parse_faqs_from(_, _)
parse_faqs_from(faqs, rulings) ==
    IF faqs = << >> THEN rulings
    ELSE LET faq_item == Head(faqs)
             faq_content == faq_item[1]
         IN  IF faq_item = << >>
             THEN parse_faqs_from(Tail(faqs), rulings)
             ELSE IF ~({ "html", "code", "updated" } \subseteq DOMAIN faq_content)
             THEN parse_faqs_from(Tail(faqs), rulings)
             ELSE IF "date" \notin DOMAIN faq_content.updated
                     \/ faq_content.updated.date = ""
             THEN parse_faqs_from(Tail(faqs), rulings)
             ELSE parse_faqs_from(Tail(faqs),
                      DictSet(rulings, faq_content.code,
                              [code |-> faq_content.code,
                               text |-> CleanedText(faq_content.html),
                               updated |-> faq_content.updated.date]))

parse_faqs(faqs) == parse_faqs_from(faqs, << >>)

\* What fetch_faq gave for a card: nothing; the FAQ of 01002, in paragraphs
\* and with absolute links; the FAQ of 01001; an answer without a date; an
\* answer without markup.
FaqItems ==
    { << >>,
      << [code |-> "01002",
          html |-> << Tag("p", "", << StrongTag(lblErrata) >> \o txtX
                                   \o << Anchor("https://arkhamdb.com/card/01003", << "k" >>) >>),
                      Tag("p", "", << Anchor("https://arkhamdb.com/rules#Errata", << "r" >>) >>) >>,
          updated |-> [date |-> "2023-04-01 00:00:00.000000", timezone |-> "UTC"]] >>,
      << [code |-> "01001",
          html |-> << Tag("ul", "", << Tag("li", "", liQuestionAnswer) >>) >>,
          updated |-> [date |-> "2024-01-15 00:00:00.000000", timezone |-> "UTC"]] >>,
      << [code |-> "01001",
          html |-> txtX,
          updated |-> [timezone |-> "UTC"]] >>,
      << [code |-> "01003",
          updated |-> [date |-> "2023-04-01 00:00:00.000000", timezone |-> "UTC"]] >> }

\* The files parse_faqs writes for the answers to at most n cards.
IngestedBatches(n) ==
    { parse_faqs(faqs) : faqs \in UNION { [1..m -> FaqItems] : m \in 1..n } }

InitBatch ==
    /\ source_card_code \in CardCodes
    /\ ruling_soup = Tag("[document]", "", << >>)
    /\ card_updated_at = None
    /\ pc = "not_called"
    /\ original_snippet_html = None
    /\ base_provenance = None
    /\ strong_tags = << >>
    /\ tag_index = 0
    /\ current_question_html_str = None
    /\ rulings_for_item = << >>
    /\ question_tag = 0
    /\ emitted_by = << >>
    /\ pending_before = << >>
    /\ hash_seed \in HashSeeds
    /\ source_text = << >>
    /\ source_name = None
    /\ now = 1
    /\ run = 1
    /\ raw_faq_json \in Batches(MaxCards) \cup IngestedBatches(MaxCards)
    /\ batch_pc = "start"
    /\ html_content_map = << >>
    /\ card_index = 0
    /\ li_index = 0
    /\ all_rulings = << >>
    /\ calls = << >>
    /\ first_run = None
    /\ loop_time = 0
    /\ tasks = << >>
    /\ debounced_task = 0

\* The variables of process_ruling_html, of extract_faq_source_name and of
\* the interpreter.
call_vars == << source_card_code, ruling_soup, card_updated_at, pc,
                original_snippet_html, base_provenance, strong_tags, tag_index,
                current_question_html_str, rulings_for_item, question_tag,
                emitted_by, pending_before >>

\* Lines 364-366 and 131-135: BeautifulSoup(card_data["text"]) for every card
\* before the first is processed; a card without "text" raises KeyError, which
\* nothing catches.
ConvertJsonToHtml ==
    /\ batch_pc = "start"
    /\ IF \A k \in 1..Len(raw_faq_json) : "text" \in DOMAIN raw_faq_json[k][2]
       THEN /\ html_content_map' =
                   [k \in 1..Len(raw_faq_json) |->
                       << raw_faq_json[k][1],
                          Tag("[document]", "", raw_faq_json[k][2].text) >>]
            /\ card_index' = 1
            /\ li_index' = 1
            /\ batch_pc' = "cards"
       ELSE /\ batch_pc' = "raised"
            /\ UNCHANGED << html_content_map, card_index, li_index >>
    /\ UNCHANGED << debounce_vars, call_vars, hash_seed, source_text, source_name, now, run,
                    raw_faq_json, all_rulings, calls, first_run >>

\* list_items, line 372, as paths into the soup of the card.
ListItems(k) == FindAll(html_content_map[k][2], << >>, "li")

\* Lines 368-378 and 381: the next call of process_ruling_html, on the next
\* list item of the card or, without any, on the whole soup of the card.
CallProcessRulingHtml ==
    /\ batch_pc = "cards"
    /\ card_index <= Len(html_content_map)
    /\ LET card_code == html_content_map[card_index][1]
           card_level_soup == html_content_map[card_index][2]
           card_metadata == raw_faq_json[card_index][2]
       IN  /\ source_card_code' = card_code
           /\ card_updated_at' =
                  IF "updated_at" \in DOMAIN card_metadata
                  THEN Some(card_metadata.updated_at) ELSE None
           /\ ruling_soup' =
                  IF ListItems(card_index) # << >>
                  THEN NodeAt(card_level_soup, ListItems(card_index)[li_index])
                  ELSE card_level_soup
    /\ pc' = "start"
    /\ original_snippet_html' = None
    /\ base_provenance' = None
    /\ strong_tags' = << >>
    /\ tag_index' = 0
    /\ current_question_html_str' = None
    /\ rulings_for_item' = << >>
    /\ question_tag' = 0
    /\ emitted_by' = << >>
    /\ pending_before' = << >>
    /\ batch_pc' = "in_call"
    /\ UNCHANGED << debounce_vars, hash_seed, source_text, source_name, now, run, raw_faq_json,
                    html_content_map, card_index, li_index, all_rulings, calls,
                    first_run >>

\* Lines 379 and 382: the list the call returned is added, the loops
\* go on.
ExtendAllRulings ==
    /\ batch_pc = "in_call"
    /\ pc = "done"
    /\ all_rulings' = all_rulings \o rulings_for_item
    /\ calls' = Append(calls, [card_code |-> source_card_code,
                               rulings |-> rulings_for_item])
    /\ IF li_index < Len(ListItems(card_index))
       THEN li_index' = li_index + 1 /\ card_index' = card_index
       ELSE li_index' = 1 /\ card_index' = card_index + 1
    /\ batch_pc' = "cards"
    /\ UNCHANGED << debounce_vars, call_vars, hash_seed, source_text, source_name, now, run,
                    raw_faq_json, html_content_map, first_run >>

\* Line 384
ReturnAllRulings ==
    /\ batch_pc = "cards"
    /\ card_index > Len(html_content_map)
    /\ batch_pc' = "done"
    /\ UNCHANGED << debounce_vars, call_vars, hash_seed, source_text, source_name, now, run,
                    raw_faq_json, html_content_map, card_index, li_index,
                    all_rulings, calls, first_run >>

\* The script is run again on the same file (main, lines 387-399), in a new
\* process with a hash seed of its own; the clock goes on.
Rerun ==
    /\ batch_pc \in { "done", "raised" }
    /\ run = 1
    /\ first_run' = Some([outcome |-> batch_pc, all_rulings |-> all_rulings,
                          calls |-> calls, hash_seed |-> hash_seed])
    /\ run' = 2
    /\ hash_seed' \in HashSeeds
    /\ batch_pc' = "start"
    /\ html_content_map' = << >>
    /\ card_index' = 0
    /\ li_index' = 0
    /\ all_rulings' = << >>
    /\ calls' = << >>
    /\ UNCHANGED << debounce_vars, call_vars, source_text, source_name, now, raw_faq_json >>

\* The script is run (main, lines 387-399) on a file that holds one card of
\* the first file and nothing else, in a process of its own.
RunOnOneCard ==
    /\ batch_pc \in { "done", "raised" }
    /\ run = 1
    /\ first_run' = Some([outcome |-> batch_pc, all_rulings |-> all_rulings,
                          calls |-> calls, hash_seed |-> hash_seed])
    /\ run' = 3
    /\ hash_seed' \in HashSeeds
    /\ \E k \in 1..Len(raw_faq_json) : raw_faq_json' = << raw_faq_json[k] >>
    /\ batch_pc' = "start"
    /\ html_content_map' = << >>
    /\ card_index' = 0
    /\ li_index' = 0
    /\ all_rulings' = << >>
    /\ calls' = << >>
    /\ UNCHANGED << debounce_vars, call_vars, source_text, source_name, now >>

NextBatch ==
    \/ ConvertJsonToHtml
    \/ CallProcessRulingHtml
    \/ Begin
    \/ NoStrongTags
    \/ ProcessStrongTag
    \/ Return
    \/ ExtendAllRulings
    \/ ReturnAllRulings
    \/ Rerun
    \/ RunOnOneCard

SpecBatch == InitBatch /\ [][NextBatch]_vars

-----------------------------------------------------------------------------
(* Vocabulary of the properties *)

\* The k-th <strong> tag: its normalised label, its table key, its content.
LabelTextAt(k) == TagText(NodeAt(ruling_soup, strong_tags[k]))
KeyAt(k) == RulingTypeKey(LabelTextAt(k))
HasEntry(k) == KeyAt(k) \in DOMAIN TEXT_TO_RULING_TYPE
KindAt(k) == TEXT_TO_RULING_TYPE[KeyAt(k)]
IsQuestionLabel(k) == HasEntry(k) /\ KindAt(k) = "QUESTION_ANSWER"
PlainTextAt(k) == FullContentPlainText(ruling_soup, strong_tags[k], strong_tags)

\* The passes of the loop made so far, the question stored after pass k, the
\* rulings pass k appended.
Passes == 1..Len(pending_before)
PendingAfter(k) ==
    IF k < Len(pending_before) THEN pending_before[k + 1] ELSE current_question_html_str
RulingsOf(k) == { r \in 1..Len(rulings_for_item) : emitted_by[r].answer = k }

\* A pass of the loop is about to run on tag tag_index.
InPass == pc = "loop" /\ tag_index <= Len(strong_tags)

\* The step appends exactly one ruling and keeps the earlier ones.
AppendsOne ==
    /\ Len(rulings_for_item') = Len(rulings_for_item) + 1
    /\ SubSeq(rulings_for_item', 1, Len(rulings_for_item)) = rulings_for_item

LastRuling(rulings) == rulings[Len(rulings)]

IsQuestionAnswer(ruling, question, answer) ==
    /\ ruling.ruling_type = "QUESTION_ANSWER"
    /\ ruling.question = Some(question)
    /\ ruling.answer = Some(answer)

-----------------------------------------------------------------------------
(* C1.  A question label (Q or Follow-up Q) with text q, met with no        *)
(* question stored, directly followed by the label A with text a, gives     *)
(* exactly one ruling for the pair: QUESTION_ANSWER with question q and     *)
(* answer a, for every q, the empty one too, and no question stays stored.  *)
(* Fails: the label "a" has no table entry, so the pass takes line 336,     *)
(* which tests the stored question for truth; an empty q is never answered. *)
C1_QuestionThenAnswerGivesOneRuling ==
    \A k \in Passes :
        ( /\ k > 1
          /\ IsQuestionLabel(k - 1)
          /\ pending_before[k - 1] = None
          /\ LabelTextAt(k) = << "a" >> )
        => /\ Cardinality(RulingsOf(k)) = 1
           /\ \A r \in RulingsOf(k) :
                  IsQuestionAnswer(rulings_for_item[r], PlainTextAt(k - 1), PlainTextAt(k))
           /\ PendingAfter(k) = None

(* C2.  Rulings come in the document order of the tags that complete them,  *)
(* and a fragment Errata(X), Q(Y), A(Z) returns exactly Errata with text X  *)
(* and then QUESTION_ANSWER(Y, Z).  The order holds; the example fails for  *)
(* an empty Y, by the defect of C1.                                         *)
C2_DocumentOrder ==
    /\ \A r1, r2 \in 1..Len(rulings_for_item) :
           r1 < r2 => emitted_by[r1].answer < emitted_by[r2].answer
    /\ ( /\ pc = "done"
         /\ Len(strong_tags) = 3
         /\ KeyAt(1) = << "errata" >>
         /\ IsQuestionLabel(2)
         /\ LabelTextAt(3) = << "a" >> )
       => /\ Len(rulings_for_item) = 2
          /\ rulings_for_item[1].ruling_type = "ERRATA"
          /\ rulings_for_item[1].text = Some(PlainTextAt(1))
          /\ IsQuestionAnswer(rulings_for_item[2], PlainTextAt(2), PlainTextAt(3))

(* C3.  Every ruling in the list has exactly one content variant: a         *)
(* QUESTION_ANSWER ruling has question and answer and no text, a ruling of  *)
(* any other kind has text and neither question nor answer.                 *)
C3_OneContentVariant ==
    \A r \in 1..Len(rulings_for_item) :
        LET ruling == rulings_for_item[r]
        IN  IF ruling.ruling_type = "QUESTION_ANSWER"
            THEN ruling.question # None /\ ruling.answer # None /\ ruling.text = None
            ELSE ruling.text # None /\ ruling.question = None /\ ruling.answer = None

\* Both variants in one returned list.
C3_Witness ==
    /\ pc = "done"
    /\ \E r1, r2 \in 1..Len(rulings_for_item) :
           /\ rulings_for_item[r1].ruling_type = "QUESTION_ANSWER"
           /\ rulings_for_item[r2].ruling_type = "NOTE"

\* The whole text of the nodes, trimmed.
TrimmedFullText(nodes) == Strip(Flatten(AllStringsOfAll(nodes)))

\* The strings each trimmed, the empty ones left out, one blank between them.
RECURSIVE TrimmedStringsJoined(_)
TrimmedStringsJoined(strings) ==
    IF strings = << >> THEN << >>
    ELSE LET first == Strip(Head(strings))
             rest == TrimmedStringsJoined(Tail(strings))
         IN  IF first = << >> THEN rest
             ELSE IF rest = << >> THEN first
             ELSE first \o << " " >> \o rest

\* The call has returned for a fragment without any <strong> tag.
ReturnedWithoutLabels == pc = "done" /\ strong_tags = << >>

C5_OtherKindAnswersStoredQuestion ==
    [][ ( /\ InPass
          /\ current_question_html_str # None
          /\ HasEntry(tag_index)
          /\ KindAt(tag_index) # "QUESTION_ANSWER" )
        => /\ AppendsOne
           /\ LastRuling(rulings_for_item').ruling_type = "QUESTION_ANSWER"
           /\ LastRuling(rulings_for_item').question = current_question_html_str
           /\ LastRuling(rulings_for_item').answer = Some(PlainTextAt(tag_index))
           /\ LastRuling(rulings_for_item').text = None
           /\ current_question_html_str' = None ]_vars

(* C6.  With no question stored, a pass on a label of a kind other than     *)
(* question appends exactly one ruling, of that kind and with the content   *)
(* of the label as text, and still no question is stored.                   *)
C6_OtherKindEmitsOwnRuling ==
    [][ ( /\ InPass
          /\ current_question_html_str = None
          /\ HasEntry(tag_index)
          /\ KindAt(tag_index) # "QUESTION_ANSWER" )
        => /\ AppendsOne
           /\ LastRuling(rulings_for_item').ruling_type = KindAt(tag_index)
           /\ LastRuling(rulings_for_item').text = Some(PlainTextAt(tag_index))
           /\ LastRuling(rulings_for_item').question = None
           /\ LastRuling(rulings_for_item').answer = None
           /\ current_question_html_str' = None ]_vars

\* An "As If" label met with no question stored has its ruling.
C6_Witness ==
    \E k \in Passes :
        /\ pending_before[k] = None
        /\ HasEntry(k)
        /\ KindAt(k) = "AS_IF"
        /\ \E r \in RulingsOf(k) : rulings_for_item[r].ruling_type = "AS_IF"

(* C7.  With a question q stored, a pass on a label without table entry     *)
(* appends exactly one ruling, QUESTION_ANSWER with question q and the      *)
(* content of this label as answer, and leaves no question stored.  Fails   *)
(* for the empty q: line 336 tests the stored question for truth (the       *)
(* defect of C1), so nothing is appended and q stays stored.                *)
C7_UnclassifiedAnswersStoredQuestion ==
    [][ ( /\ InPass
          /\ current_question_html_str # None
          /\ ~HasEntry(tag_index) )
        => /\ AppendsOne
           /\ LastRuling(rulings_for_item').ruling_type = "QUESTION_ANSWER"
           /\ LastRuling(rulings_for_item').question = current_question_html_str
           /\ LastRuling(rulings_for_item').answer = Some(PlainTextAt(tag_index))
           /\ current_question_html_str' = None ]_vars

(* C8.  With no question stored, a pass on a label without table entry      *)
(* appends nothing, leaves the list as it was and no question stored, and   *)
(* the loop goes on to the next tag.                                        *)
C8_UnclassifiedDropped ==
    [][ ( /\ InPass
          /\ current_question_html_str = None
          /\ ~HasEntry(tag_index) )
        => /\ rulings_for_item' = rulings_for_item
           /\ current_question_html_str' = None
           /\ pc' = "loop"
           /\ tag_index' = tag_index + 1 ]_vars

\* A label without entry was passed with no question stored, and the tag
\* after it has been processed too.
C8_Witness ==
    \E k \in Passes :
        /\ pending_before[k] = None
        /\ ~HasEntry(k)
        /\ PlainTextAt(k) # << >>
        /\ k + 1 \in Passes
        /\ RulingsOf(k + 1) # { }

(* C9.  A question still stored when the loop ends is dropped: no returned  *)
(* ruling took its question from the tag that stored it; and every          *)
(* QUESTION_ANSWER ruling has its answer from a tag after the tag of its    *)
(* question.                                                                *)
C9_PendingQuestionDropped ==
    /\ (pc = "done" /\ current_question_html_str # None) =>
           /\ question_tag \in 1..Len(strong_tags)
           /\ \A r \in 1..Len(rulings_for_item) : emitted_by[r].question # question_tag
    /\ \A r \in 1..Len(rulings_for_item) :
           rulings_for_item[r].ruling_type = "QUESTION_ANSWER" =>
               /\ 1 <= emitted_by[r].question
               /\ emitted_by[r].question < emitted_by[r].answer
               /\ IsQuestionAnswer(rulings_for_item[r],
                                   PlainTextAt(emitted_by[r].question),
                                   PlainTextAt(emitted_by[r].answer))

\* Returned with a question stored, after another question was answered.
C9_Witness ==
    /\ pc = "done"
    /\ Truthy(current_question_html_str)
    /\ \E r \in 1..Len(rulings_for_item) :
           rulings_for_item[r].ruling_type = "QUESTION_ANSWER"

(* C10.  No ruling, from a fragment with or without labels, has its own     *)
(* source card code among its related card codes.                           *)
C10_SourceCodeNotRelated ==
    \A r \in 1..Len(rulings_for_item) :
        rulings_for_item[r].source_card_code
            \notin Range(rulings_for_item[r].related_card_codes)

\* A ruling of a fragment that links to its own card and to others.
C10_Witness ==
    /\ Len(rulings_for_item) >= 1
    /\ pc # "start"
    /\ source_card_code \in CARD_LINK_PATTERN_findall(original_snippet_html)
    /\ rulings_for_item[1].related_card_codes # << >>
    /\ strong_tags # << >>

\* The codes of the links of a markup, in the order and as often as they occur.
LinkedCodes(markup) ==
    LET IsLink(t) == t.k = "open" /\ CardLinkGroup(t.v) # ""
        links == SelectSeq(markup, IsLink)
    IN  [k \in 1..Len(links) |-> CardLinkGroup(links[k].v)]

\* Strictly increasing in the order of str: sorted, no code twice.
StrictlyIncreasing(codes) ==
    \A i, j \in 1..Len(codes) : i < j => CodeRank(codes[i]) < CodeRank(codes[j])

(* C11.  The related card codes of every ruling are in strictly increasing  *)
(* order of str, sorted and without a code twice, however often and in      *)
(* whatever order the markup links the codes and in whatever order the set  *)
(* of line 191 is iterated.                                                 *)
C11_RelatedCodesSorted ==
    \A r \in 1..Len(rulings_for_item) :
        StrictlyIncreasing(rulings_for_item[r].related_card_codes)

\* A ruling with two related codes, from a fragment that links them out of
\* order and more than once, in a process that iterates the set out of order.
C11_Witness ==
    /\ Len(rulings_for_item) >= 1
    /\ Len(rulings_for_item[1].related_card_codes) = 2
    /\ ~StrictlyIncreasing(SetIteration(Range(rulings_for_item[1].related_card_codes)))
    /\ \E i, j \in 1..Len(LinkedCodes(original_snippet_html)) :
           /\ i < j
           /\ CodeRank(LinkedCodes(original_snippet_html)[i]) >
                  CodeRank(LinkedCodes(original_snippet_html)[j])
    /\ \E i, j \in 1..Len(LinkedCodes(original_snippet_html)) :
           /\ i < j
           /\ LinkedCodes(original_snippet_html)[i] = "01003"
           /\ LinkedCodes(original_snippet_html)[j] = "01003"

\* The raw markup of the content of the k-th <strong> tag.
HtmlStrAt(k) == FullContentHtmlStr(ruling_soup, strong_tags[k], strong_tags)

\* The raw markup that contributed to the r-th ruling: the content of the tag
\* of its question, if it has one, and of the tag that completed it; the whole
\* fragment for the ruling of a fragment without labels.
ContributingCodes(r) ==
    IF emitted_by[r].answer = 0
    THEN CARD_LINK_PATTERN_findall(original_snippet_html)
    ELSE CARD_LINK_PATTERN_findall(HtmlStrAt(emitted_by[r].answer))
         \cup ( IF emitted_by[r].question = 0 THEN { }
                ELSE CARD_LINK_PATTERN_findall(HtmlStrAt(emitted_by[r].question)) )

(* C12.  The related card codes of a ruling are exactly the codes, other    *)
(* than the source card's, linked in the content of the tags that           *)
(* contributed to it; a code linked only under another label of the         *)
(* fragment is not among them.  Fails: lines 294 and 345 match the links    *)
(* in original_snippet_html, the markup of the whole fragment.              *)
C12_RelatedCodesOfOwnSegments ==
    \A r \in 1..Len(rulings_for_item) :
        Range(rulings_for_item[r].related_card_codes)
            = ContributingCodes(r) \ { source_card_code }

\* The raw markup of the segment that completed the r-th ruling: the content
\* of the tag that appended it, the whole fragment when there is no label.
CompletingHtmlStr(r) ==
    IF emitted_by[r].answer = 0 THEN original_snippet_html
    ELSE HtmlStrAt(emitted_by[r].answer)

(* C13.  The source_name of every ruling is the document reference matched  *)
(* in the segment that completed it when that segment has one, and          *)
(* otherwise the one matched in the whole fragment (None without any),      *)
(* whatever the label of the completing segment.  Fails for a completing    *)
(* label without table entry, "A:" among them: line 343 copies              *)
(* base_provenance and never looks for a reference in the segment.          *)
C13_SourceNameOfCompletingSegment ==
    \A r \in 1..Len(rulings_for_item) :
        rulings_for_item[r].provenance.source_name =
            IF extract_faq_source_name(CompletingHtmlStr(r)) # None
            THEN extract_faq_source_name(CompletingHtmlStr(r))
            ELSE extract_faq_source_name(original_snippet_html)

(* C14.  The source_date of a ruling is None only when no date can be had   *)
(* from the text (no document reference, with its month and year, in the    *)
(* fragment) nor from card_updated_at.  Fails: line 212 sets source_date to *)
(* card_updated_at and nothing ever sets it from a matched reference.       *)
C14_SourceDateUnsetOnlyWithoutDate ==
    \A r \in 1..Len(rulings_for_item) :
        rulings_for_item[r].provenance.source_date = None
            => /\ card_updated_at = None
               /\ FAQ_VERSION_PATTERN_search(original_snippet_html) = None

(* C15.  For every text that contains the reference "FAQ, v.1.7, March      *)
(* 2020", whatever stands before or after it, extract_faq_source_name       *)
(* returns exactly "FAQ v.1.7, March 2020".  Fails: the third group         *)
(* [\w\s]+\s\d{4} is greedy and runs on to the last year that follows the   *)
(* reference, and the search returns the leftmost match, which takes        *)
(* "Official " in front or an earlier reference.                            *)
C15_SourceNameOfReference ==
    pc = "returned" =>
        source_name = Some(<< "F", "A", "Q", " ", "v", ".", "1", ".", "7", ",", " ",
                              "M", "a", "r", "c", "h", " ", "2", "0", "2", "0" >>)

\* A ruling without what is made anew in every run.
Masked(ruling) ==
    [ruling EXCEPT !.id = << >>, !.provenance.retrieval_date = 0,
                   !.provenance.object = << >>]
MaskedAll(rulings) == [k \in 1..Len(rulings) |-> Masked(rulings[k])]

(* C16.  Run again on the same input, process_ruling_html returns for every *)
(* call, and process_html_faq_data for the batch, as many rulings in the    *)
(* same order, equal in kind, question, answer, text, related codes and     *)
(* provenance but for retrieval_date; the runs differ in id and             *)
(* retrieval_date only, whatever the hash seeds of the two processes.       *)
C16_RerunGivesSameRulings ==
    run = 2 =>
        /\ Len(calls) <= Len(first_run[1].calls)
        /\ \A k \in 1..Len(calls) :
               /\ calls[k].card_code = first_run[1].calls[k].card_code
               /\ MaskedAll(calls[k].rulings) = MaskedAll(first_run[1].calls[k].rulings)
        /\ batch_pc \in { "done", "raised" } =>
               /\ batch_pc = first_run[1].outcome
               /\ Len(calls) = Len(first_run[1].calls)
               /\ MaskedAll(all_rulings) = MaskedAll(first_run[1].all_rulings)

\* The second run has returned, in a process with another hash seed: several
\* rulings, one with two related codes, every id and retrieval_date new.
C16_Witness ==
    /\ run = 2
    /\ batch_pc = "done"
    /\ hash_seed # first_run[1].hash_seed
    /\ Len(all_rulings) >= 3
    /\ \E r \in 1..Len(all_rulings) : Len(all_rulings[r].related_card_codes) = 2
    /\ \A r \in 1..Len(all_rulings) :
           /\ all_rulings[r].id # first_run[1].all_rulings[r].id
           /\ all_rulings[r].provenance.retrieval_date
                  # first_run[1].all_rulings[r].provenance.retrieval_date

\* The k-th card of the batch has the markup the code reads.
WellFormed(k) == "text" \in DOMAIN raw_faq_json[k][2]

(* C17.  The batch ends by returning, whatever a single card is like: the   *)
(* call never ends by an exception, and every card that has its markup has  *)
(* had its fragments processed and their rulings are in the list returned.  *)
(* Fails: convert_json_to_html reads card_data["text"] of all cards before  *)
(* the first is processed and no exception is caught, so one card without   *)
(* "text" ends the call with KeyError and nothing is returned.              *)
C17_FailuresIsolated ==
    batch_pc \in { "done", "raised" } =>
        /\ batch_pc = "done"
        /\ \A k \in 1..Len(raw_faq_json) :
               WellFormed(k) =>
                   \E c \in 1..Len(calls) :
                       /\ calls[c].card_code = raw_faq_json[k][1]
                       /\ \A r \in 1..Len(calls[c].rulings) :
                              calls[c].rulings[r] \in Range(all_rulings)

\* The markup holds a <strong> tag.
HoldsLabel(markup) ==
    \E k \in 1..Len(markup) : markup[k].k = "open" /\ markup[k].name = "strong"

(* C18.  The content of every label stops at the next label of the          *)
(* fragment, wherever that label is in the tree: neither its raw markup nor *)
(* its plain text holds a later label or what follows one.  Fails: the scan *)
(* of lines 243-252 stops at a <strong> among the siblings of the label     *)
(* only; a sibling that wraps the next label, <p><strong>A:</strong> z</p>, *)
(* is taken whole, label and all.                                           *)
C18_ContentStopsAtNextLabel ==
    \A k \in 1..Len(strong_tags) :
        /\ ~HoldsLabel(HtmlStrAt(k))
        /\ \A j \in 1..Len(strong_tags) :
               j > k => GetTextStripped(<< NodeAt(ruling_soup, strong_tags[j]) >>, << >>)
                            \notin { SubSeq(PlainTextAt(k), a, b) :
                                       a, b \in 1..Len(PlainTextAt(k)) }

\* The label text without the colons at its end, ASCII or full-width.
RECURSIVE RStripEitherColon(_)
RStripEitherColon(s) ==
    IF s # << >> /\ s[Len(s)] \in { ":", "U+FF1A" }
    THEN RStripEitherColon(SubSeq(s, 1, Len(s) - 1)) ELSE s

\* The key under which the k-th label is looked up when its text is
\* lower-cased and either colon is stripped from its end.
KeyWithEitherColon(k) ==
    RulingTypeKey(Lower(RStripEitherColon(
        GetTextStripped(<< NodeAt(ruling_soup, strong_tags[k]) >>, << >>))))

(* C19.  A label is classified by its text in lower case without the colon  *)
(* at its end, the ASCII ":" or the full-width one: a label of the table is *)
(* given the kind of its entry whether it is written with ":", with the     *)
(* full-width colon or in upper case.  Fails for the full-width colon:      *)
(* strip(":") of line 240 leaves it on the text, which then has no entry.   *)
C19_EitherColonAndCaseClassify ==
    \A k \in Passes :
        KeyWithEitherColon(k) \in DOMAIN TEXT_TO_RULING_TYPE
            => /\ HasEntry(k)
               /\ KindAt(k) = TEXT_TO_RULING_TYPE[KeyWithEitherColon(k)]

\* The normalised label text begins with "follow-up q".
BeginsWithFollowUpQ(tag_text) == tag_text # << >> /\ Head(tag_text) = "follow-up q"

(* C20.  A label whose text begins with "follow-up q", whatever follows, is *)
(* treated as the label "q" is: its content becomes the stored question and *)
(* the pass appends nothing.  Any other label is classified by its own      *)
(* entry of TEXT_TO_RULING_TYPE only: a ruling that is not a                *)
(* QUESTION_ANSWER has the kind of the entry of its label, and a label      *)
(* without entry is given no kind, it appends nothing or answers the        *)
(* stored question.                                                         *)
C20_FollowUpPrefixAndTableOnly ==
    [][ InPass =>
          LET tag_text == LabelTextAt(tag_index)
          IN  IF BeginsWithFollowUpQ(tag_text) \/ tag_text = << "q" >>
              THEN /\ rulings_for_item' = rulings_for_item
                   /\ current_question_html_str' = Some(PlainTextAt(tag_index))
              ELSE IF tag_text \in DOMAIN TEXT_TO_RULING_TYPE
              THEN /\ AppendsOne
                   /\ LastRuling(rulings_for_item').ruling_type
                          \in { TEXT_TO_RULING_TYPE[tag_text], "QUESTION_ANSWER" }
                   /\ current_question_html_str = None =>
                          LastRuling(rulings_for_item').ruling_type
                              = TEXT_TO_RULING_TYPE[tag_text]
              ELSE \/ /\ rulings_for_item' = rulings_for_item
                      /\ current_question_html_str' = current_question_html_str
                   \/ /\ AppendsOne
                      /\ current_question_html_str # None
                      /\ LastRuling(rulings_for_item').ruling_type = "QUESTION_ANSWER"
                      /\ LastRuling(rulings_for_item').question = current_question_html_str
      ]_vars

\* A label "Follow-up Q 2:" stored its content and appended nothing, and a
\* later label answered it.
C20_Witness ==
    \E k \in Passes :
        /\ BeginsWithFollowUpQ(LabelTextAt(k))
        /\ Len(LabelTextAt(k)) > 1
        /\ RulingsOf(k) = { }
        /\ PendingAfter(k) = Some(PlainTextAt(k))
        /\ \E r \in 1..Len(rulings_for_item) :
               /\ emitted_by[r].question = k
               /\ rulings_for_item[r].question = Some(PlainTextAt(k))

-----------------------------------------------------------------------------
(* C21.  The pairing state is made once for the fragment of a card and      *)
(* goes through all its segments: the call on a later list item of the      *)
(* same card starts with the question the list item before it left stored,  *)
(* so that the next segment can answer it.  Fails: line 378 calls           *)
(* process_ruling_html once for every list item and line 204 makes the      *)
(* state anew in every call, so a question at the end of one list item is   *)
(* dropped and the label in the next list item finds nothing stored.        *)
C21_PairingStateThreadedThroughFragment ==
    [][ ( /\ batch_pc = "cards"
          /\ batch_pc' = "in_call"
          /\ li_index > 1 )
        => current_question_html_str' = current_question_html_str ]_vars

-----------------------------------------------------------------------------
\* The rulings the calls on the card gave, in their order.
RECURSIVE RulingsOfCard(_, _)
RulingsOfCard(call_list, card_code) ==
    IF call_list = << >> THEN << >>
    ELSE ( IF Head(call_list).card_code = card_code
           THEN Head(call_list).rulings ELSE << >> )
         \o RulingsOfCard(Tail(call_list), card_code)

(* C22.  Fragments are independent: what a card gives in a batch, id and    *)
(* retrieval_date apart, is what it gives when it is the only card of the   *)
(* batch, whatever the other cards and the order; and no call starts with   *)
(* a question of the call before it.  Fails by the defect of C17: with a    *)
(* card without "text" in the batch the call raises and no card of the      *)
(* batch gives a ruling, while the card alone gives its rulings.            *)
C22_FragmentsIndependent ==
    /\ ( batch_pc = "in_call" /\ pc = "start" ) => current_question_html_str = None
    /\ ( run = 3 /\ batch_pc = "done" ) =>
           MaskedAll(all_rulings)
               = MaskedAll(RulingsOfCard(first_run[1].calls, raw_faq_json[1][1]))

\* The same for the batches the first run returned from.
C22_IndependentInReturnedBatches ==
    ( run = 3 /\ batch_pc = "done" /\ first_run[1].outcome = "done" ) =>
        MaskedAll(all_rulings)
            = MaskedAll(RulingsOfCard(first_run[1].calls, raw_faq_json[1][1]))

-----------------------------------------------------------------------------
\* Pass k met a question label while a question was stored.
QuestionOnQuestion(k) == IsQuestionLabel(k) /\ pending_before[k] # None

C23_ReplacesAndPairsNonEmpty ==
    \A k \in Passes :
        QuestionOnQuestion(k) =>
            /\ RulingsOf(k) = { }
            /\ PendingAfter(k) = Some(PlainTextAt(k))
            /\ \A r \in 1..Len(rulings_for_item) :
                   emitted_by[r].answer > k => emitted_by[r].question \notin 1..(k - 1)
            /\ ( k + 1 \in Passes /\ ~IsQuestionLabel(k + 1) /\ PlainTextAt(k) # << >> ) =>
                   /\ Cardinality(RulingsOf(k + 1)) = 1
                   /\ \A r \in RulingsOf(k + 1) :
                          IsQuestionAnswer(rulings_for_item[r], PlainTextAt(k),
                                           PlainTextAt(k + 1))

-----------------------------------------------------------------------------
\* The nodes that stand after the k-th <strong> tag in its parent, and the
\* nodes lines 242-280 take for its content.
FollowingSiblings(k) ==
    LET path == strong_tags[k]
        siblings == ParentOf(ruling_soup, path).kids
    IN  { siblings[j] : j \in (path[Len(path)] + 1)..Len(siblings) }
ContentNodesAt(k) == ContentNodes(ruling_soup, strong_tags[k], strong_tags)

(* C24.  The content of a segment is made only of nodes that come after     *)
(* its own label in document order, on the sibling scan and on the parent   *)
(* scan.  Fails on the parent scan: line 266 compares child_node with the   *)
(* tag by value, so the scan starts collecting at the first child equal to  *)
(* the label, an earlier label with the same markup, and the text between   *)
(* the two labels becomes the content of the later one.                     *)
C24_ContentFollowsLabel ==
    \A k \in Passes :
        \A n \in 1..Len(ContentNodesAt(k)) :
            ContentNodesAt(k)[n] \in FollowingSiblings(k)

\* The same for the labels whose markup no earlier label of the parent has.
C24_ContentFollowsFirstOfItsMarkup ==
    \A k \in Passes :
        ( \A j \in 1..(k - 1) :
              NodeAt(ruling_soup, strong_tags[j]) # NodeAt(ruling_soup, strong_tags[k]) )
        => \A n \in 1..Len(ContentNodesAt(k)) :
               ContentNodesAt(k)[n] \in FollowingSiblings(k)

-----------------------------------------------------------------------------
\* What a ruling states: its kind and its texts.
Statement(ruling) ==
    << ruling.ruling_type, ruling.question, ruling.answer, ruling.text >>

(* C25.  process_html_faq_data processes each labelled segment of a card    *)
(* once: no statement is in the returned list twice for the same card (the  *)
(* cards of the batch hold every statement once), list items inside list    *)
(* items included.  Fails: find_all("li"), line 372, is recursive and       *)
(* gives the inner list item as well as the outer one that holds it, and    *)
(* the call on the outer one finds the labels of the inner one too.         *)
C25_NoStatementTwice ==
    \A r1, r2 \in 1..Len(all_rulings) :
        ( /\ r1 # r2
          /\ all_rulings[r1].source_card_code = all_rulings[r2].source_card_code )
        => Statement(all_rulings[r1]) # Statement(all_rulings[r2])

\* The same for the cards without a list item inside a list item.
C25_NoStatementTwiceInFlatLists ==
    \A r1, r2 \in 1..Len(all_rulings) :
        ( /\ r1 # r2
          /\ all_rulings[r1].source_card_code = all_rulings[r2].source_card_code
          /\ all_rulings[r1].source_card_code # "01006" )
        => Statement(all_rulings[r1]) # Statement(all_rulings[r2])

-----------------------------------------------------------------------------
\* The QUESTION_ANSWER rulings of the list, the question labels of the
\* fragment.
QuestionAnswerRulings ==
    { r \in 1..Len(rulings_for_item) :
          rulings_for_item[r].ruling_type = "QUESTION_ANSWER" }
QuestionLabels == { k \in 1..Len(strong_tags) : IsQuestionLabel(k) }

(* C26.  A segment causes at most one ruling: in a fragment with a label    *)
(* every pass of the loop appends at most one ruling, the list never holds  *)
(* more rulings than the fragment has <strong> tags, nor more               *)
(* QUESTION_ANSWER rulings than it has question labels.                     *)
C26_AtMostOneRulingPerSegment ==
    strong_tags # << >> =>
        /\ \A k \in Passes : Cardinality(RulingsOf(k)) <= 1
        /\ Len(rulings_for_item) <= Len(strong_tags)
        /\ Cardinality(QuestionAnswerRulings) <= Cardinality(QuestionLabels)

\* A fragment of three labels has returned two rulings, one of them the
\* QUESTION_ANSWER ruling of its only question label.
C26_Witness ==
    /\ pc = "done"
    /\ Len(strong_tags) = 3
    /\ Len(rulings_for_item) = 2
    /\ Cardinality(QuestionAnswerRulings) = 1
    /\ Cardinality(QuestionLabels) = 1

-----------------------------------------------------------------------------
(* C27.  The update date the ingestion stage stores reaches the rulings:    *)
(* when process_html_faq_data reads a file parse_faqs wrote, every ruling   *)
(* of a card has as source_date the date the file holds for the card.       *)
(* Fails: parse_faqs stores the date under the key "updated" (line 100 of   *)
(* the scraper) and process_html_faq_data reads "updated_at" (line 370),    *)
(* which the file never has, so every source_date is None.                  *)
C27_IngestedDateReachesRulings ==
    raw_faq_json \in IngestedBatches(MaxCards) =>
        \A k \in 1..Len(raw_faq_json) :
            \A r \in 1..Len(all_rulings) :
                all_rulings[r].source_card_code = raw_faq_json[k][1]
                => all_rulings[r].provenance.source_date
                       = Some(raw_faq_json[k][2].updated)

\* The same for the files that hold the date under "updated_at", the key
\* the docstring of process_html_faq_data names.
C27_UpdatedAtReachesRulings ==
    \A k \in 1..Len(raw_faq_json) :
        \A r \in 1..Len(all_rulings) :
            ( /\ all_rulings[r].source_card_code = raw_faq_json[k][1]
              /\ "updated_at" \in DOMAIN raw_faq_json[k][2] )
            => all_rulings[r].provenance.source_date
                   = Some(raw_faq_json[k][2].updated_at)

-----------------------------------------------------------------------------
\* The source_name the ruling r got when it was appended: that of the
\* reference in the content of its own label, when the label has an entry
\* and the content a reference (lines 288-292), else that of the base.
SourceNameAsEmitted(r) ==
    LET k == emitted_by[r].answer
    IN  IF HasEntry(k) /\ extract_faq_source_name(HtmlStrAt(k)) # None
        THEN extract_faq_source_name(HtmlStrAt(k))
        ELSE extract_faq_source_name(original_snippet_html)

(* C28.  A source_name written for the ruling of one segment changes no     *)
(* other provenance.  In a fragment with labels, at every moment after      *)
(* line 220: the base provenance has the four fields line 209 gave it;      *)
(* every ruling in the list has the source_type, source_url and source_date *)
(* of the base and the source_name it was appended with; and the            *)
(* provenance of every ruling is an object of its own, neither the base     *)
(* nor that of another ruling.                                              *)
C28_OverrideLeavesOthersUnchanged ==
    ( pc \in { "loop", "done" } /\ strong_tags # << >> ) =>
        /\ base_provenance.source_type = "arkhamdb_faq"
        /\ base_provenance.source_url
               = << "https://arkhamdb.com/card/", source_card_code, "#faq" >>
        /\ base_provenance.source_date = card_updated_at
        /\ base_provenance.source_name = extract_faq_source_name(original_snippet_html)
        /\ \A r \in 1..Len(rulings_for_item) :
               LET provenance == rulings_for_item[r].provenance
               IN  /\ provenance.source_type = base_provenance.source_type
                   /\ provenance.source_url = base_provenance.source_url
                   /\ provenance.source_date = base_provenance.source_date
                   /\ provenance.source_name = SourceNameAsEmitted(r)
                   /\ provenance.object # base_provenance.object
                   /\ \A r2 \in 1..Len(rulings_for_item) :
                          r2 # r => rulings_for_item[r2].provenance.object
                                        # provenance.object

\* A list was returned in which a later ruling has a source_name written for
\* it and an earlier one still has that of the base.
C28_Witness ==
    /\ pc = "done"
    /\ \E r1, r2 \in 1..Len(rulings_for_item) :
           /\ r1 < r2
           /\ base_provenance.source_name # None
           /\ rulings_for_item[r1].provenance.source_name = base_provenance.source_name
           /\ rulings_for_item[r2].provenance.source_name # base_provenance.source_name
           /\ rulings_for_item[r2].provenance.source_name # None

-----------------------------------------------------------------------------
(* src/abyssal_tome/utils.py, debounce, lines 5-30 (utils.py, lines 6-18,   *)
(* is the same code), on the asyncio event loop                             *)

\* Most calls of the debounced function, and the last tick of the clock.
MaxCalls == 3
MaxTime == 4

\* The parameter wait, in ticks of the clock (@debounce(1.0), app.py line 523).
wait == 2

\* What the calls are made with: the text of the search field.
Arguments == { "ab", "abc" }

\* A task is created (line 26, not yet run), sleeping (line 23), in_fn (line
\* 24, suspended at an await inside the wrapped function), done or cancelled.
\* must_cancel is the flag Task.cancel() sets: the next step of the task
\* raises CancelledError at the await where it is suspended.
NewTask(args) ==
    [args |-> args, called_at |-> loop_time, state |-> "created", wake |-> 0,
     must_cancel |-> FALSE, started_at |-> None, fn_args |-> None]

\* Lines 19-20 with a seeded fault: the previous task is left alone.
Cancel_NoOp(task_list, k) == task_list

\* Lines 19-20: debounced._task.cancel() when the attribute is not None.
\* cancel() does nothing to a task that is done or cancelled, and requests
\* the cancellation of any other, wherever it is suspended.
Cancel(task_list, k) ==
    IF k = 0 THEN task_list
    ELSE IF task_list[k].state \in { "done", "cancelled" } THEN task_list
    ELSE [task_list EXCEPT ![k].must_cancel = TRUE]

\* Lines 17-26: one call of debounced(*args); it has no await, so the
\* event loop runs it in one piece.
Call(args) ==
    /\ Len(tasks) < MaxCalls
    /\ tasks' = Append(Cancel(tasks, debounced_task), NewTask(args))
    /\ debounced_task' = Len(tasks) + 1
    /\ UNCHANGED << loop_time, call_vars, batch_vars, hash_seed, source_text,
                    source_name, now >>

\* Lines 22-23: the first step of the task, up to await asyncio.sleep(wait).
StartSleep(k) ==
    /\ tasks[k].state = "created"
    /\ ~tasks[k].must_cancel
    /\ tasks' = [tasks EXCEPT ![k].state = "sleeping", ![k].wake = loop_time + wait]
    /\ UNCHANGED << loop_time, debounced_task, call_vars, batch_vars, hash_seed,
                    source_text, source_name, now >>

\* Line 24: the sleep is over, fn(*args, **kwargs) is called with the
\* arguments of the call that made the task, and runs to an await.
CallFn(k) ==
    /\ tasks[k].state = "sleeping"
    /\ ~tasks[k].must_cancel
    /\ loop_time >= tasks[k].wake
    /\ tasks' = [tasks EXCEPT ![k].state = "in_fn",
                              ![k].started_at = Some(loop_time),
                              ![k].fn_args = Some(tasks[k].args)]
    /\ UNCHANGED << loop_time, debounced_task, call_vars, batch_vars, hash_seed,
                    source_text, source_name, now >>

\* Line 24: fn returns, the task is done.
FnReturns(k) ==
    /\ tasks[k].state = "in_fn"
    /\ ~tasks[k].must_cancel
    /\ tasks' = [tasks EXCEPT ![k].state = "done"]
    /\ UNCHANGED << loop_time, debounced_task, call_vars, batch_vars, hash_seed,
                    source_text, source_name, now >>

\* The step of a task whose cancellation was requested: CancelledError is
\* raised at the await where it is suspended (before its first line, in
\* asyncio.sleep, or inside fn); neither task() nor the wrapped function
\* catches it.
RaiseCancelled(k) ==
    /\ tasks[k].state \in { "created", "sleeping", "in_fn" }
    /\ tasks[k].must_cancel
    /\ tasks' = [tasks EXCEPT ![k].state = "cancelled"]
    /\ UNCHANGED << loop_time, debounced_task, call_vars, batch_vars, hash_seed,
                    source_text, source_name, now >>

\* Time passes; the loop may be late in running what is due.
Tick ==
    /\ loop_time < MaxTime
    /\ loop_time' = loop_time + 1
    /\ UNCHANGED << tasks, debounced_task, call_vars, batch_vars, hash_seed,
                    source_text, source_name, now >>

InitDebounce ==
    /\ source_card_code \in CardCodes
    /\ ruling_soup = Tag("[document]", "", << >>)
    /\ card_updated_at = None
    /\ pc = "not_called"
    /\ original_snippet_html = None
    /\ base_provenance = None
    /\ strong_tags = << >>
    /\ tag_index = 0
    /\ current_question_html_str = None
    /\ rulings_for_item = << >>
    /\ question_tag = 0
    /\ emitted_by = << >>
    /\ pending_before = << >>
    /\ hash_seed = << "01001", "01002", "01003" >>
    /\ source_text = << >>
    /\ source_name = None
    /\ now = 1
    /\ run = 1
    /\ raw_faq_json = << >>
    /\ batch_pc = "not_called"
    /\ html_content_map = << >>
    /\ card_index = 0
    /\ li_index = 0
    /\ all_rulings = << >>
    /\ calls = << >>
    /\ first_run = None
    /\ loop_time = 0
    /\ tasks = << >>
    /\ debounced_task = 0

NextDebounce ==
    \/ \E args \in Arguments : Call(args)
    \/ \E k \in 1..Len(tasks) : StartSleep(k)
    \/ \E k \in 1..Len(tasks) : CallFn(k)
    \/ \E k \in 1..Len(tasks) : FnReturns(k)
    \/ \E k \in 1..Len(tasks) : RaiseCancelled(k)
    \/ Tick

SpecDebounce == InitDebounce /\ [][NextDebounce]_vars

-----------------------------------------------------------------------------
\* The wrapped function was called for the k-th call of debounced; the call
\* after the k-th came less than wait after it, so both are of one burst.
Executed(k) == tasks[k].started_at # None
FollowedInBurst(k) ==
    k < Len(tasks) /\ tasks[k + 1].called_at < tasks[k].called_at + wait

(* C29.  Of the calls of a burst, each made less than wait after the one    *)
(* before it, none but the last ever executes the wrapped function; a call  *)
(* that executes it does so once, no sooner than wait after the call was    *)
(* made and with the arguments of that call; and when every task has        *)
(* ended, the last call has executed it.                                    *)
C29_BurstExecutesLastCallOnly ==
    /\ \A k \in 1..Len(tasks) :
           /\ FollowedInBurst(k) => ~Executed(k)
           /\ Executed(k) =>
                  /\ tasks[k].started_at[1] >= tasks[k].called_at + wait
                  /\ tasks[k].fn_args = Some(tasks[k].args)
    /\ ( /\ tasks # << >>
         /\ \A k \in 1..Len(tasks) : tasks[k].state \in { "done", "cancelled" } )
       => Executed(Len(tasks))

\* A burst of three calls, the last with other arguments than the first, has
\* ended: the function ran once, for the last call.
C29_Witness ==
    /\ Len(tasks) = 3
    /\ FollowedInBurst(1)
    /\ FollowedInBurst(2)
    /\ tasks[1].args # tasks[3].args
    /\ tasks[3].called_at > tasks[1].called_at
    /\ tasks[3].state = "done"
    /\ tasks[3].fn_args = Some(tasks[3].args)
    /\ ~Executed(1)
    /\ ~Executed(2)

(* C30.  A call cancels only the calls before it that are still waiting:    *)
(* a task that has called the wrapped function is never cancelled.  Fails:  *)
(* line 20 calls cancel() on whatever task the attribute holds, and a task  *)
(* suspended inside the wrapped function gets CancelledError there.         *)
C30_RunningCallNeverCancelled ==
    \A k \in 1..Len(tasks) :
        Executed(k) => ~tasks[k].must_cancel /\ tasks[k].state # "cancelled"

\* The same for the tasks that are still waiting when the next call is made.
C30_CancelledWhileWaitingNeverExecutes ==
    \A k \in 1..Len(tasks) :
        ( tasks[k].must_cancel /\ tasks[k].started_at = None )
        => tasks[k].state \in { "created", "sleeping", "cancelled" }

====
